---------------------------- MODULE Spec2Model ----------------------------
(***************************************************************************)
(* TerraLeaf: leaf-disease classifier.  Model of cnn_prediction.py (train, *)
(* load_models, predict, extract_image_features) and of the two callers    *)
(* that cache a loaded bundle (main.py, database_dashboard.py).            *)
(*                                                                         *)
(* Numbers.  Python floats are modelled in fixed point: a score or a ratio *)
(* is an integer count of 1/SCALE units.  Pixel channels, grayscale values *)
(* and counts are exact integers.                                          *)
(***************************************************************************)
EXTENDS Integers, Sequences, FiniteSets, TLC

(***************************************************************************)
(* Bounds of the model.                                                    *)
(***************************************************************************)
\* largest number of rows of the DataFrame handed to train
MaxRecords == 8
\* largest number of pixels of an image handed to predict
MaxPixels == 5
\* largest number of train calls in one behaviour of the app
MaxRuns == 2
\* largest number of files uploaded for one run of the Predict page
MaxFiles == 3

(***************************************************************************)
(* CONFIG  (cnn_prediction.py 44-57)                                       *)
(***************************************************************************)
CLF_PATH == "clf_model.pkl"
SCALER_PATH == "scaler.pkl"
ENCODER_PATH == "label_encoder.pkl"
REG_PATH == "regressors.pkl"
IMG_SCALER_PATH == "img_scaler.pkl"

SOIL_FEATURES ==
    << "soil_moisture", "soil_pH", "soil_temperature",
       "nitrogen", "phosphorus", "potassium",
       "mean_green_intensity", "color_variance",
       "texture_entropy", "spot_area_ratio", "disease_color_index" >>

TARGET_CLASS == "disease_type"

\* the order in which train writes, and load_models reads, the five files
PersistOrder ==
    << CLF_PATH, SCALER_PATH, ENCODER_PATH, REG_PATH, IMG_SCALER_PATH >>

Paths == { PersistOrder[k] : k \in 1..Len(PersistOrder) }

(***************************************************************************)
(* Small helpers.                                                          *)
(***************************************************************************)
Range(s) == { s[k] : k \in 1..Len(s) }

RECURSIVE SumOver(_, _)
SumOver(S, f) ==
    IF S = {} THEN 0
    ELSE LET x == CHOOSE y \in S : TRUE
         IN  f[x] + SumOver(S \ {x}, f)

Min2(a, b) == IF a < b THEN a ELSE b
Max2(a, b) == IF a > b THEN a ELSE b

\* the ascending sequence of the integers of a finite set (np.unique, np.array
\* of an ascending list)
RECURSIVE SortedSeq(_)
SortedSeq(S) ==
    IF S = {} THEN << >>
    ELSE LET m == CHOOSE x \in S : \A y \in S : x <= y
         IN  << m >> \o SortedSeq(S \ {m})

(***************************************************************************)
(* Class names.  The universe of disease_type values of the model, listed  *)
(* in the order in which Python compares the strings.                      *)
(***************************************************************************)
ClassUniverse == << "blight", "healthy", "rust" >>

\* LabelEncoder.fit: classes_ = np.unique(y), the distinct labels, sorted
LabelEncoderFit(labels) ==
    SelectSeq(ClassUniverse, LAMBDA c : c \in Range(labels))

\* LabelEncoder.transform of one label: its 0-based position in classes_
LabelEncoderCode(classes, c) ==
    (CHOOSE k \in 1..Len(classes) : classes[k] = c) - 1


(***************************************************************************)
(* TRAIN: the computation of train(data, imgdata), cnn_prediction.py       *)
(* 152-212.  A call's input d is a record                                  *)
(*   labels  : the disease_type column as strings, one per row;            *)
(*   images  : the numbers n with 'img_<n>.png' a key of imgdata;          *)
(*   columns : the column names of the DataFrame;                          *)
(*   unreadable : the numbers n whose imgdata value _open_image cannot     *)
(*             read (a path to a file that is no image).                   *)
(* Row i is 0-based as in the source; d.labels[i + 1] is its label.        *)
(***************************************************************************)
NumRows(d) == Len(d.labels)

\* (variant: the file number taken as the row index)
FNameOffByOne(i) == i % 1000

\* line 165: the number in the file name 'img_{(i % 1000) + 1:04d}.png'
FName(i) == (i % 1000) + 1

\* lines 153-154: le.classes_ and y_cls = le.fit_transform(...)
TrainLeClasses(d) == LabelEncoderFit(d.labels)

y_cls(d) ==
    [ i \in 0..(NumRows(d) - 1) |->
        LabelEncoderCode(TrainLeClasses(d), d.labels[i + 1]) ]

\* (variant: only the six sensor columns are looked up)
MissingSensorColumns(d) ==
    { SOIL_FEATURES[k] : k \in 1..6 } \ d.columns

\* line 159: data[SOIL_FEATURES] raises KeyError naming the absent columns
MissingSoilColumns(d) == Range(SOIL_FEATURES) \ d.columns

\* (variant: every row is kept, whether or not it has an image)
ValidIdxAll(d) == SortedSeq(0..(NumRows(d) - 1))

\* lines 162-172: the rows whose file name is a key of imgdata, ascending
ValidIdx(d) ==
    SortedSeq({ i \in 0..(NumRows(d) - 1) : FName(i) \in d.images })

\* lines 166-167: the rows whose image _rich_image_vector is called on and
\* cannot read; the loop has no handler, the exception leaves train
UnreadableMatched(d) ==
    { i \in 0..(NumRows(d) - 1) :
        FName(i) \in d.images /\ FName(i) \in d.unreadable }

\* line 174: y_v = y_cls[valid_idx]; position p is 0-based, y_v[p + 1] here
TrainYv(d) == [ p \in 1..Len(ValidIdx(d)) |-> y_cls(d)[ValidIdx(d)[p]] ]

(***************************************************************************)
(* train_test_split(idx, test_size=0.15, random_state=42, stratify=y_v)    *)
(* of scikit-learn, lines 186-188.  n_test = ceil(0.15 n), n_train is the  *)
(* rest.  It raises ValueError when the train part would be empty, when a  *)
(* class of y_v has fewer than 2 members, or when either part is smaller   *)
(* than the number of classes.  The seeded shuffle is not modelled: a      *)
(* split is any choice of n_train positions in which each class gets its   *)
(* proportional share rounded down or that plus one (the allocation of     *)
(* _approximate_mode); the validation part is the rest.                    *)
(***************************************************************************)
NTest(n) == (15 * n + 99) \div 100
NTrain(n) == n - NTest(n)

ClassCount(yv, k, P) == Cardinality({ p \in P : yv[p + 1] = k })

Positions(yv) == 0..(Len(yv) - 1)

SplitFails(yv) ==
    LET n  == Len(yv)
        ks == Range(yv)
    IN  \/ NTrain(n) = 0
        \/ \E k \in ks : ClassCount(yv, k, Positions(yv)) < 2
        \/ NTrain(n) < Cardinality(ks)
        \/ NTest(n) < Cardinality(ks)

StratifiedSplits(yv) ==
    LET n == Len(yv)
    IN  { tr \in SUBSET Positions(yv) :
            /\ Cardinality(tr) = NTrain(n)
            /\ \A k \in Range(yv) :
                 LET share == (ClassCount(yv, k, Positions(yv)) * NTrain(n)) \div n
                 IN  ClassCount(yv, k, tr) \in { share, share + 1 } }

\* line 200: GradientBoostingClassifier.fit; classes_ = np.unique(y), and a
\* ValueError when y holds fewer than 2 classes
ClfClasses(yv, tr) == SortedSeq({ yv[p + 1] : p \in tr })

\* (variant: a fit that accepts a single class)
ClfFitNeverFails(yv, tr) == FALSE

ClfFitFails(yv, tr) == Len(ClfClasses(yv, tr)) < 2

(***************************************************************************)
(* The first statement of lines 152-183 that raises on input d, with the   *)
(* exception it raises, or "none".  pandas raises KeyError for an absent   *)
(* column, scikit-learn ValueError for an empty array, PIL                 *)
(* UnidentifiedImageError for a file that is no image, numpy ValueError    *)
(* for vstack of an empty list.                                            *)
(***************************************************************************)
NoError == [ exc |-> "none", at |-> "none", names |-> {} ]

TrainPrefixError(d) ==
    IF TARGET_CLASS \notin d.columns
      THEN [ exc |-> "KeyError", at |-> "le.fit_transform", names |-> { TARGET_CLASS } ]
    ELSE IF MissingSoilColumns(d) # {}
      THEN [ exc |-> "KeyError", at |-> "scaler.fit_transform",
             names |-> MissingSoilColumns(d) ]
    ELSE IF NumRows(d) = 0
      THEN [ exc |-> "ValueError", at |-> "scaler.fit_transform", names |-> {} ]
    ELSE IF UnreadableMatched(d) # {}
      THEN [ exc |-> "UnidentifiedImageError", at |-> "_rich_image_vector",
             names |-> {} ]
    ELSE IF Len(ValidIdx(d)) = 0
      THEN [ exc |-> "ValueError", at |-> "np.vstack", names |-> {} ]
    ELSE NoError

\* line 175: print(f"Images matched: {len(valid_idx)}") is reached when no
\* statement before it raised
PrintsMatched(d) == TrainPrefixError(d).at = "none"


(***************************************************************************)
(* IMAGE FEATURE EXTRACTION, cnn_prediction.py 71-92.  An image is the     *)
(* sequence of the RGB pixels of the resized array, each << r, g, b >>     *)
(* with channels in 0..255.                                                *)
(***************************************************************************)
\* one unit of a fixed-point number is 1/SCALE
SCALE == 1000

\* a quotient too large for the model's integers is recorded as this many units
DciCap == 1000000

\* lines 64-68: an input _open_image cannot open or convert has no array
NoPixels == << >>

Readable(img) == img # NoPixels

NumPixels(img) == Len(img)

\* line 76: gray = (0.299 r + 0.587 g + 0.114 b).astype(np.uint8)
Gray(px) == (299 * px[1] + 587 * px[2] + 114 * px[3]) \div 1000

GraySum(img) == SumOver(1..Len(img), [ p \in 1..Len(img) |-> Gray(img[p]) ])

\* (variant: gray <= gray.mean())
SpotMaskInclusive(img) ==
    { p \in 1..Len(img) : Gray(img[p]) * Len(img) <= GraySum(img) }

\* line 82: spot_mask = gray < gray.mean()
SpotMask(img) ==
    { p \in 1..Len(img) : Gray(img[p]) * Len(img) < GraySum(img) }

ChannelSum(img, c, P) == SumOver(P, [ p \in P |-> img[p][c] ])

\* lines 83-84: r[spot_mask].mean() / (g[spot_mask].mean() + 1e-9), or 0.0
\* when the mask is empty.  With a green mean of 0 the divisor is 1e-9.
DiseaseColorIndex(img) ==
    LET m == SpotMask(img)
        R == ChannelSum(img, 1, m)
        G == ChannelSum(img, 2, m)
    IN  IF m = {} THEN 0
        ELSE IF G > 0 THEN Min2((R * SCALE) \div G, DciCap)
        ELSE IF R = 0 THEN 0
        ELSE DciCap

\* line 90: float(spot_mask.mean())
SpotAreaRatio(img) == (Cardinality(SpotMask(img)) * SCALE) \div Len(img)

\* line 87: float(g.mean())
MeanGreenIntensity(img) ==
    (ChannelSum(img, 2, 1..Len(img)) * SCALE) \div Len(img)

\* line 88: float(arr.var()), the variance over every channel of every
\* pixel: the mean of the squares less the square of the mean
ColorVariance(img) ==
    LET M   == 3 * Len(img)
        S1  == SumOver(1..Len(img),
                       [ p \in 1..Len(img) |-> img[p][1] + img[p][2] + img[p][3] ])
        S2  == SumOver(1..Len(img),
                       [ p \in 1..Len(img) |->
                           img[p][1] * img[p][1] + img[p][2] * img[p][2]
                             + img[p][3] * img[p][3] ])
        num == S2 * M - S1 * S1
    IN  (num \div (M * M)) * SCALE + ((num % (M * M)) * SCALE) \div (M * M)

\* log2 of 1..8 in thousandths
Log2Milli == << 0, 1000, 1585, 2000, 2322, 2585, 2807, 3000 >>

Log2Units(k) == (Log2Milli[k] * SCALE) \div 1000

\* line 78: the 256 bins of width 255/256 over [0, 255] hold one gray value
\* each; the count of the bin of gray value v
GrayCount(img, v) == Cardinality({ p \in 1..Len(img) : Gray(img[p]) = v })

\* lines 78-80: -sum(p * log2(p + 1e-9)) over the bins, p = count / n, which
\* is log2(n) - sum(count * log2(count)) / n.  With a single bin p + 1e-9
\* exceeds 1 and the sum is about -1.4e-9: below zero by less than one unit.
TextureEntropy(img) ==
    LET n    == Len(img)
        vals == { Gray(img[p]) : p \in 1..n }
    IN  IF Cardinality(vals) = 1 THEN -1
        ELSE Log2Units(n)
               - SumOver(vals, [ v \in vals |->
                                   GrayCount(img, v) * Log2Units(GrayCount(img, v)) ])
                 \div n

\* lines 86-92: the keys of the returned dict, in the order of insertion
FeatureKeys ==
    << "mean_green_intensity", "color_variance", "texture_entropy",
       "spot_area_ratio", "disease_color_index" >>

\* lines 86-92: the returned dict
extract_image_features(img) ==
    [ mean_green_intensity |-> MeanGreenIntensity(img),
      color_variance       |-> ColorVariance(img),
      texture_entropy      |-> TextureEntropy(img),
      spot_area_ratio      |-> SpotAreaRatio(img),
      disease_color_index  |-> DiseaseColorIndex(img) ]

(***************************************************************************)
(* _rich_image_vector, cnn_prediction.py 95-138.  The descriptor is the    *)
(* sequence of its entries; an entry names the block it belongs to and     *)
(* what it measures (the patch bounds, the bin, the key); the five disease *)
(* scalars carry their value as well.                                      *)
(***************************************************************************)
\* line 43: IMG_SIZE = (128, 128), (width, height) of resize
IMG_SIZE == << 128, 128 >>

\* the concatenation of a sequence of sequences
RECURSIVE Flat(_)
Flat(ss) == IF ss = << >> THEN << >> ELSE Head(ss) \o Flat(Tail(ss))

\* lines 113 and 132: the pixels (y, x), 0-based, of the slice
\* arr[rows[0]:rows[1], cols[0]:cols[1]]
InPatch(of, y, x) ==
    /\ of.rows[1] <= y /\ y < of.rows[2]
    /\ of.cols[1] <= x /\ x < of.cols[2]

\* (variant: the columns in the outer loop)
SpatialEntriesColumnMajor ==
    LET h == IMG_SIZE[2]
        w == IMG_SIZE[1]
        patch(ri, ci, c) ==
            [ rows |-> << (ri * h) \div 3, ((ri + 1) * h) \div 3 >>,
              cols |-> << (ci * w) \div 3, ((ci + 1) * w) \div 3 >>,
              channel |-> c ]
    IN  Flat([ ci \in 1..3 |->
          Flat([ ri \in 1..3 |->
            Flat([ c \in 1..3 |->
              << [ block |-> "spatial", stat |-> "mean",
                   of |-> patch(ri - 1, ci - 1, c - 1) ],
                 [ block |-> "spatial", stat |-> "std",
                   of |-> patch(ri - 1, ci - 1, c - 1) ] >> ]) ]) ])

\* lines 111-118: for ri, ci in range(3) x range(3), for c in range(3):
\* mean and std of patch[:, :, c]
SpatialEntries ==
    LET h == IMG_SIZE[2]
        w == IMG_SIZE[1]
        patch(ri, ci, c) ==
            [ rows |-> << (ri * h) \div 3, ((ri + 1) * h) \div 3 >>,
              cols |-> << (ci * w) \div 3, ((ci + 1) * w) \div 3 >>,
              channel |-> c ]
    IN  Flat([ ri \in 1..3 |->
          Flat([ ci \in 1..3 |->
            Flat([ c \in 1..3 |->
              << [ block |-> "spatial", stat |-> "mean",
                   of |-> patch(ri - 1, ci - 1, c - 1) ],
                 [ block |-> "spatial", stat |-> "std",
                   of |-> patch(ri - 1, ci - 1, c - 1) ] >> ]) ]) ])

\* (variant: the last bin half-open like the others)
LumBinOpenLast(v) == (64 * v) \div 255

\* line 122: np.histogram(gray, bins=64, range=(0, 255)).  The bins are
\* [255 k / 64, 255 (k + 1) / 64) for k = 0..62 and [255 * 63 / 64, 255] for
\* k = 63; a value in no bin is not counted.  The 0-based bin of gray value v
LumBin(v) == IF v = 255 THEN 63 ELSE (64 * v) \div 255

\* line 122: the counts of the 64 bins
LumHistCounts(img) ==
    [ k \in 1..64 |->
        Cardinality({ p \in 1..Len(img) : LumBin(Gray(img[p])) = k - 1 }) ]

\* (variant: the 256 bins of extract_image_features)
LumHistEntries256 == [ k \in 1..256 |-> [ block |-> "lum_hist", bin |-> k - 1 ] ]

\* lines 121-123: np.histogram(gray, bins=64, range=(0, 255))
LumHistEntries == [ k \in 1..64 |-> [ block |-> "lum_hist", bin |-> k - 1 ] ]

\* lines 126-127: list(feats.values()), in the order of the dict's keys
ScalarEntries(img) ==
    LET feats == extract_image_features(img)
    IN  [ k \in 1..Len(FeatureKeys) |->
            [ block |-> "scalars", key |-> FeatureKeys[k],
              value |-> feats[FeatureKeys[k]] ] ]

\* lines 130-136: for ri, ci in range(2) x range(2), for c in range(3):
\* std of patch[:, :, c]
QuadEntries ==
    LET h == IMG_SIZE[2]
        w == IMG_SIZE[1]
        patch(ri, ci, c) ==
            [ rows |-> << (ri * h) \div 2, ((ri + 1) * h) \div 2 >>,
              cols |-> << (ci * w) \div 2, ((ci + 1) * w) \div 2 >>,
              channel |-> c ]
    IN  Flat([ ri \in 1..2 |->
          Flat([ ci \in 1..2 |->
            [ c \in 1..3 |->
                [ block |-> "quad_std", stat |-> "std",
                  of |-> patch(ri - 1, ci - 1, c - 1) ] ] ]) ])

\* line 138: np.concatenate([spatial, lum_hist, scalars, quad_std])
RichImageVector(img) ==
    SpatialEntries \o LumHistEntries \o ScalarEntries(img) \o QuadEntries

\* what an entry of the descriptor measures: the entry less its value
ColumnOf(e) == [ f \in DOMAIN e \ { "value" } |-> e[f] ]

\* lines 158-159 and 261: the columns of data[SOIL_FEATURES] and of
\* pd.DataFrame([default_row])[SOIL_FEATURES], in the order of the list
TabColumns ==
    [ k \in 1..Len(SOIL_FEATURES) |->
        [ block |-> "tabular", key |-> SOIL_FEATURES[k] ] ]

\* line 166: a row of X_img is _rich_image_vector of the row's image; what
\* its columns measure, the same for every row
ImgColumns ==
    SpatialEntries \o LumHistEntries
      \o [ k \in 1..Len(FeatureKeys) |->
             [ block |-> "scalars", key |-> FeatureKeys[k] ] ]
      \o QuadEntries

\* lines 182-183: X_all = np.hstack([X_img_sc, X_tab_v])
TrainColumns == ImgColumns \o TabColumns

\* (variant: the tabular block first)
PredictColumnsTabFirst(img) ==
    LET img_vec == RichImageVector(img)
    IN  TabColumns \o [ k \in 1..Len(img_vec) |-> ColumnOf(img_vec[k]) ]

\* lines 254-264: X_all = np.hstack([img_vec_sc, tab_vec]) of predict
PredictColumns(img) ==
    LET img_vec == RichImageVector(img)
    IN  [ k \in 1..Len(img_vec) |-> ColumnOf(img_vec[k]) ] \o TabColumns

(***************************************************************************)
(* PREDICT, cnn_prediction.py 247-293.                                     *)
(***************************************************************************)
\* line 280, before the clamp: 100 - spot * 200 - (dci - 1) * 20
RawHealth(spot, dci) == 100 * SCALE - spot * 200 - (dci - SCALE) * 20

\* (variant: the lower clamp alone)
HealthScoreDropCeiling(spot, dci) == Max2(0, RawHealth(spot, dci))

\* (variant: the upper clamp alone)
HealthScoreDropFloor(spot, dci) == Min2(100 * SCALE, RawHealth(spot, dci))

\* line 280: max(0.0, min(100.0, ...))
HealthScore(spot, dci) ==
    Max2(0, Min2(100 * SCALE, RawHealth(spot, dci)))

\* (variant: strict comparisons)
SeverityExclusive(health) ==
    IF health > 80 * SCALE THEN "Healthy"
    ELSE IF health > 60 * SCALE THEN "Mild"
    ELSE IF health > 40 * SCALE THEN "Moderate"
    ELSE "Severe"

\* lines 281-283
Severity(health) ==
    IF health >= 80 * SCALE THEN "Healthy"
    ELSE IF health >= 60 * SCALE THEN "Mild"
    ELSE IF health >= 40 * SCALE THEN "Moderate"
    ELSE "Severe"

\* line 268: int(np.argmax(proba)), the first column holding the maximum,
\* 0-based; column j of proba is proba[j + 1] here
\* (variant: the first column holding the minimum)
ArgMin(proba) ==
    (CHOOSE j \in 1..Len(proba) :
        /\ \A i \in 1..Len(proba) : proba[i] >= proba[j]
        /\ \A i \in 1..(j - 1) : proba[i] > proba[j]) - 1
ArgMax(proba) ==
    (CHOOSE j \in 1..Len(proba) :
        /\ \A i \in 1..Len(proba) : proba[i] <= proba[j]
        /\ \A i \in 1..(j - 1) : proba[i] < proba[j]) - 1

\* lines 269, 271: le.inverse_transform([i])[0]; ValueError when i is no
\* code of the encoder
InverseTransformFails(le, i) == i < 0 \/ i >= Len(le.classes_)

InverseTransform(le, i) == le.classes_[i + 1]


(***************************************************************************)
(* The artifacts.  Each carries the number of the train call that made it  *)
(* (run, from 1) and the fitted attributes the model reads.                *)
(***************************************************************************)
NoFile == [ run |-> 0 ]

\* lines 192-200; label_of_column[j] is the disease_type string that code
\* classes_[j] stood for in the y the classifier was fitted on
FitClf(r, d, tr) ==
    LET cs == ClfClasses(TrainYv(d), tr)
    IN  [ run             |-> r,
          classes_        |-> cs,
          label_of_column |-> [ j \in 1..Len(cs) |-> TrainLeClasses(d)[cs[j] + 1] ],
          n_rows          |-> Cardinality(tr),
          n_features_in_  |-> Len(TrainColumns) ]

\* lines 158-159: StandardScaler fitted on data[SOIL_FEATURES]
FitScaler(r, d) ==
    [ run |-> r, n_samples_seen_ |-> NumRows(d), columns |-> SOIL_FEATURES,
      n_features_in_ |-> Len(TabColumns) ]

\* lines 153-154
FitLe(r, d) == [ run |-> r, classes_ |-> TrainLeClasses(d) ]

\* (variant: the regressors fitted on X_all)
FitRegressorsOnCombined(r, d, tr) ==
    [ run    |-> r,
      keys   |-> SOIL_FEATURES,
      n_rows |-> Cardinality(tr),
      n_val  |-> Cardinality(Positions(TrainYv(d)) \ tr),
      n_features_in_ |-> Len(TrainColumns) ]

\* lines 205-212: one regressor per name of SOIL_FEATURES, in that order,
\* fitted on the rows tr_i of X_tab_v and scored (RMSE) on the n_val rows
\* va_i; n_features_in_ is the number of columns each was fitted on
FitRegressors(r, d, tr) ==
    [ run    |-> r,
      keys   |-> SOIL_FEATURES,
      n_rows |-> Cardinality(tr),
      n_val  |-> Cardinality(Positions(TrainYv(d)) \ tr),
      n_features_in_ |-> Len(TabColumns) ]

\* lines 178-179: StandardScaler fitted on the matched image vectors
FitImgScaler(r, d) ==
    [ run |-> r, n_samples_seen_ |-> Len(ValidIdx(d)),
      n_features_in_ |-> Len(ImgColumns) ]

\* what lines 215-219 dump, by path
TrainArtifacts(r, d, tr) ==
    [ p \in Paths |->
        IF p = CLF_PATH THEN FitClf(r, d, tr)
        ELSE IF p = SCALER_PATH THEN FitScaler(r, d)
        ELSE IF p = ENCODER_PATH THEN FitLe(r, d)
        ELSE IF p = REG_PATH THEN FitRegressors(r, d, tr)
        ELSE FitImgScaler(r, d) ]

NoArtifacts == [ p \in Paths |-> NoFile ]

\* lines 223-224 and 239-240: clf._img_scaler = img_scaler;
\* return clf, scaler, le, regressors
Bundle(files) ==
    [ clf        |-> files[CLF_PATH],
      img_scaler |-> files[IMG_SCALER_PATH],
      scaler     |-> files[SCALER_PATH],
      le         |-> files[ENCODER_PATH],
      regressors |-> files[REG_PATH] ]

NoBundle == Bundle(NoArtifacts)

\* the train calls whose artifacts a bundle holds
BundleRuns(b) ==
    { b.clf.run, b.img_scaler.run, b.scaler.run, b.le.run, b.regressors.run }


(***************************************************************************)
(* predict(img_input, clf, scaler, le, regressors), lines 247-293, on a    *)
(* bundle b.  proba is the row clf.predict_proba returns: one entry per    *)
(* entry of clf.classes_, in units of 1/ProbaSteps, summing to 1.          *)
(***************************************************************************)
\* the resolution of the probabilities the classifier returns in the model
ProbaSteps == 2

ProbaVectors(n) ==
    { v \in [ 1..n -> 0..ProbaSteps ] :
        SumOver(1..n, v) = ProbaSteps }

\* line 270 and the values of line 271: float(p) * 100
Percent(p) == (p * 100 * SCALE) \div ProbaSteps

Columns(proba) == 0..(Len(proba) - 1)

\* lines 269 and 271 raise ValueError when a column index is no code of le
PredictRaises(b, proba) ==
    \E i \in Columns(proba) : InverseTransformFails(b.le, i)

\* line 271: the dict comprehension; a later column with the same name
\* overwrites an earlier one
ClassProbs(b, proba) ==
    LET name(i) == InverseTransform(b.le, i)
    IN  [ c \in { name(i) : i \in Columns(proba) } |->
            LET last == CHOOSE i \in Columns(proba) :
                           /\ name(i) = c
                           /\ \A j \in Columns(proba) : name(j) = c => j <= i
            IN  Percent(proba[last + 1]) ]

\* (variant: the row of defaults, not updated)
TabularProxyRowDefaults(img) == [ k \in 1..Len(SOIL_FEATURES) |-> 0 ]

\* lines 258-261: default_row = {f: 0.0 for f in SOIL_FEATURES}, updated
\* with img_feats, then the columns SOIL_FEATURES in their order
TabularProxyRow(img) ==
    LET img_feats == extract_image_features(img)
    IN  [ k \in 1..Len(SOIL_FEATURES) |->
            IF SOIL_FEATURES[k] \in DOMAIN img_feats
              THEN img_feats[SOIL_FEATURES[k]]
              ELSE 0 ]

PredictRaisedAt(exc, at) == [ exc |-> exc, at |-> at ]

\* (variant: a classifier without _img_scaler is scaled with nothing)
PredictPrefixErrorNoScalerCheck(img, b) ==
    IF ~Readable(img)
      THEN PredictRaisedAt("UnidentifiedImageError", "_rich_image_vector")
    ELSE IF b.clf = NoFile
      THEN PredictRaisedAt("AttributeError", "clf._img_scaler")
    ELSE IF b.scaler = NoFile
      THEN PredictRaisedAt("AttributeError", "scaler.transform")
    ELSE IF Len(TabularProxyRow(img)) # b.scaler.n_features_in_
      THEN PredictRaisedAt("ValueError", "scaler.transform")
    ELSE IF Len(RichImageVector(img)) + Len(TabularProxyRow(img))
              # b.clf.n_features_in_
      THEN PredictRaisedAt("ValueError", "clf.predict_proba")
    ELSE IF b.le = NoFile
      THEN PredictRaisedAt("AttributeError", "le.inverse_transform")
    ELSE PredictRaisedAt("none", "none")

\* the first statement of lines 254-269 that raises before the probabilities
\* are read: PIL's exception for an input that is no image (254), then
\* AttributeError for clf._img_scaler (255), scaler.transform (261) and
\* le.inverse_transform (269) on an object that is not there; scikit-learn
\* raises ValueError for an array whose number of columns is not the
\* n_features_in_ of the fitted object (255, 261, 267)
PredictPrefixError(img, b) ==
    LET img_vec == RichImageVector(img)
        tab_vec == TabularProxyRow(img)
    IN  IF ~Readable(img)
          THEN PredictRaisedAt("UnidentifiedImageError", "_rich_image_vector")
        ELSE IF b.clf = NoFile \/ b.img_scaler = NoFile
          THEN PredictRaisedAt("AttributeError", "clf._img_scaler")
        ELSE IF Len(img_vec) # b.img_scaler.n_features_in_
          THEN PredictRaisedAt("ValueError", "clf._img_scaler.transform")
        ELSE IF b.scaler = NoFile
          THEN PredictRaisedAt("AttributeError", "scaler.transform")
        ELSE IF Len(tab_vec) # b.scaler.n_features_in_
          THEN PredictRaisedAt("ValueError", "scaler.transform")
        ELSE IF Len(img_vec) + Len(tab_vec) # b.clf.n_features_in_
          THEN PredictRaisedAt("ValueError", "clf.predict_proba")
        ELSE IF b.le = NoFile
          THEN PredictRaisedAt("AttributeError", "le.inverse_transform")
        ELSE PredictRaisedAt("none", "none")

\* the exception of lines 269-275 once proba is known, or "none"; tab_vec
\* is the row handed to each regressor
PredictError(tab_vec, b, proba) ==
    IF PredictRaises(b, proba)
      THEN PredictRaisedAt("ValueError", "le.inverse_transform")
    ELSE IF b.regressors = NoFile
      THEN PredictRaisedAt("AttributeError", "regressors.items")
    ELSE IF Len(tab_vec) # b.regressors.n_features_in_
      THEN PredictRaisedAt("ValueError", "r.predict")
    ELSE PredictRaisedAt("none", "none")

predict(img, b, proba) ==
    LET pred_idx  == ArgMax(proba)
        img_feats == extract_image_features(img)
        health    == HealthScore(img_feats.spot_area_ratio,
                                 img_feats.disease_color_index)
    IN  [ disease_type     |-> InverseTransform(b.le, pred_idx),
          confidence       |-> Percent(proba[pred_idx + 1]),
          class_probs      |-> ClassProbs(b, proba),
          soil_predictions |-> Range(b.regressors.keys),
          image_features   |-> img_feats,
          health_score     |-> health,
          severity         |-> Severity(health) ]

(***************************************************************************)
(* State.                                                                  *)
(***************************************************************************)
VARIABLES
    dataset,     \* what load_dataset() returns in this process (main.py 26-29)
    upload,      \* the image handed to predict; in SpecBatch the uploaded files
    disk,        \* the five files: path -> artifact, or NoFile
    runs,        \* the number of train calls made so far
    trainer,     \* the run of the Train page: its place and train's locals
    train_out,   \* how the train call of that run ended, as the page sees it
    sess,        \* the run of a page that loads a bundle and predicts
    load_out,    \* how the load_models call of that run ended
    page_cache,  \* st.cache_resource of load_all_models (main.py 20-23)
    db_cache,    \* st.cache_resource of _load_models (database_dashboard.py 338)
    result       \* what the prediction of that run gave its caller

vars == << dataset, upload, disk, runs, trainer, train_out, sess, load_out,
           page_cache, db_cache, result >>

IdleTrainer ==
    [ pc |-> "idle", k |-> 0, new |-> NoArtifacts, valid_idx |-> << >>,
      printed |-> << >> ]

IdleSess == [ pc |-> "idle", caller |-> "none", k |-> 0, bundle |-> NoBundle ]

NoTrainOut == [ status |-> "none", error |-> NoError, value |-> NoBundle ]

NoResult == [ status |-> "none" ]

EmptyDbCache == [ state |-> "empty", models |-> NoBundle ]

InitRest ==
    /\ disk = NoArtifacts
    /\ runs = 0
    /\ trainer = IdleTrainer
    /\ train_out = NoTrainOut
    /\ sess = IdleSess
    /\ load_out = "none"
    /\ page_cache = NoBundle
    /\ db_cache = EmptyDbCache
    /\ result = NoResult


(***************************************************************************)
(* The inputs of the model.                                                *)
(***************************************************************************)
AllColumns == Range(SOIL_FEATURES) \cup { TARGET_CLASS }

Block(c, n) == [ k \in 1..n |-> c ]

\* A DataFrame from counts: t[2c - 1] rows of class c with a matching image
\* followed by t[2c] rows of class c without one, class after class.
DatasetOf(t, cols) ==
    LET rows(c) == t[2 * c - 1] + t[2 * c]
        start(c) == SumOver(1..(c - 1), [ b \in 1..(c - 1) |-> rows(b) ])
        RECURSIVE labels(_)
        labels(c) ==
            IF c > Len(ClassUniverse) THEN << >>
            ELSE Block(ClassUniverse[c], rows(c)) \o labels(c + 1)
    IN  [ labels  |-> labels(1),
          images  |-> UNION { { start(c) + k : k \in 1..t[2 * c - 1] } :
                              c \in 1..Len(ClassUniverse) },
          columns |-> cols,
          unreadable |-> {} ]

\* the sequences of k naturals whose sum is at most m
RECURSIVE Counts(_, _)
Counts(k, m) ==
    IF k = 0 THEN { << >> }
    ELSE UNION { { << a >> \o r : r \in Counts(k - 1, m - a) } : a \in 0..m }

\* every column present, or exactly one of the twelve absent
ColumnChoices == { AllColumns } \cup { AllColumns \ { c } : c \in AllColumns }

BoundedDatasets ==
    { DatasetOf(t, cols) :
        t \in Counts(2 * Len(ClassUniverse), MaxRecords), cols \in ColumnChoices }

\* seven rows of two classes, each with its image
GoodData == DatasetOf(<< 4, 0, 0, 0, 3, 0 >>, AllColumns)
\* the same with one more row, of a third class, that has no image
GapData == DatasetOf(<< 4, 0, 0, 1, 3, 0 >>, AllColumns)
\* rows of which none has an image
NoImageData == DatasetOf(<< 0, 2, 0, 1, 0, 0 >>, AllColumns)

\* eight rows of two classes, each with its image
FullData == DatasetOf(<< 4, 0, 0, 0, 4, 0 >>, AllColumns)

\* d with the imgdata values numbered in u unreadable
WithUnreadable(d, u) == [ d EXCEPT !.unreadable = u ]

UnreadableDatasets ==
    { WithUnreadable(d, { n }) :
        d \in { FullData, GapData }, n \in 1..NumRows(FullData) }

AppDatasets == { GoodData, NoImageData }

Black == << 0, 0, 0 >>
Green == << 0, 255, 0 >>
Olive == << 64, 128, 0 >>
Brown == << 192, 128, 0 >>

Palette == { Black, Green, Olive, Brown }

BoundedImages == UNION { [ 1..n -> Palette ] : n \in 1..MaxPixels }

LeafImage == << Green, Green, Olive, Brown >>
GreenImage == << Green, Green, Green, Green >>

AppImages == { LeafImage }


(***************************************************************************)
(* The Train page, main.py 522-542: it calls train(data, imgdata) on the   *)
(* cached dataset and, when train returns, clears the cache of             *)
(* load_all_models; any exception is caught and shown.  The outcome is     *)
(* a local of the script run and goes with it.                             *)
(***************************************************************************)
Raised(e) == [ status |-> "raised", error |-> e, value |-> NoBundle ]

\* what the print of line 175 wrote during a call on d
Printed(d) == IF PrintsMatched(d) THEN << Len(ValidIdx(d)) >> ELSE << >>

\* the script run after train ended: only what was printed is left
Ended(printed) == [ IdleTrainer EXCEPT !.pc = "done", !.printed = printed ]

\* train, lines 152-183: from the labels to the scaled image vectors
TrainCall ==
    /\ trainer.pc = "idle"
    /\ runs' = runs + 1
    /\ LET d == dataset
           e == TrainPrefixError(d)
       IN  IF e.exc # "none"
             THEN /\ trainer' = Ended(Printed(d))
                  /\ train_out' = Raised(e)
             ELSE /\ trainer' =
                       [ IdleTrainer EXCEPT
                           !.pc        = "matched",
                           !.valid_idx = ValidIdx(d),
                           !.printed   = Printed(d) ]
                  /\ train_out' = [ NoTrainOut EXCEPT !.status = "running" ]
    /\ UNCHANGED << dataset, upload, disk, sess, load_out, page_cache,
                    db_cache, result >>

\* train, lines 186-212 on the split tr: fit the classifier and the
\* regressors on the train part; after it only the fitted objects are read
FitOn(tr) ==
    IF ClfFitFails(TrainYv(dataset), tr)
      THEN /\ trainer' = Ended(trainer.printed)
           /\ train_out' =
                Raised([ exc |-> "ValueError", at |-> "clf.fit", names |-> {} ])
      ELSE /\ trainer' =
                [ IdleTrainer EXCEPT
                    !.pc      = "persist",
                    !.new     = TrainArtifacts(runs, dataset, tr),
                    !.printed = trainer.printed ]
           /\ train_out' = train_out

\* (variant: the scaler is dumped as soon as it is fitted)
TrainFitDumpsScalerEarly ==
    /\ trainer.pc = "matched"
    /\ IF SplitFails(TrainYv(dataset))
         THEN /\ trainer' = Ended(trainer.printed)
              /\ train_out' =
                   Raised([ exc |-> "ValueError", at |-> "train_test_split",
                            names |-> {} ])
         ELSE \E tr \in StratifiedSplits(TrainYv(dataset)) : FitOn(tr)
    /\ disk' = [ disk EXCEPT ![SCALER_PATH] = FitScaler(runs, dataset) ]
    /\ UNCHANGED << dataset, upload, runs, sess, load_out, page_cache,
                    db_cache, result >>

\* train, lines 186-212: the train/validation split, then the fits
TrainFit ==
    /\ trainer.pc = "matched"
    /\ IF SplitFails(TrainYv(dataset))
         THEN /\ trainer' = Ended(trainer.printed)
              /\ train_out' =
                   Raised([ exc |-> "ValueError", at |-> "train_test_split",
                            names |-> {} ])
         ELSE \E tr \in StratifiedSplits(TrainYv(dataset)) : FitOn(tr)
    /\ UNCHANGED << dataset, upload, disk, runs, sess, load_out, page_cache,
                    db_cache, result >>

\* lines 215-219: the next pickle.dump
PersistStep ==
    /\ trainer.pc = "persist"
    /\ trainer.k < Len(PersistOrder)
    /\ LET p == PersistOrder[trainer.k + 1]
       IN  disk' = [ disk EXCEPT ![p] = trainer.new[p] ]
    /\ trainer' = [ trainer EXCEPT !.k = trainer.k + 1 ]
    /\ UNCHANGED << dataset, upload, runs, train_out, sess, load_out,
                    page_cache, db_cache, result >>

\* lines 215-219: open(..., 'wb') raises OSError (no space, no permission);
\* train has no handler, the files written so far stay
PersistRaises ==
    /\ trainer.pc = "persist"
    /\ trainer.k < Len(PersistOrder)
    /\ trainer' = Ended(trainer.printed)
    /\ train_out' =
         Raised([ exc |-> "OSError", at |-> PersistOrder[trainer.k + 1],
                  names |-> {} ])
    /\ UNCHANGED << dataset, upload, disk, runs, sess, load_out, page_cache,
                    db_cache, result >>

\* (variant: the Train page empties the cache of the Database tab as well)
TrainReturnClearsBoth ==
    /\ trainer.pc = "persist"
    /\ trainer.k = Len(PersistOrder)
    /\ trainer' = Ended(trainer.printed)
    /\ train_out' = [ status |-> "returned", error |-> NoError,
                      value  |-> Bundle(trainer.new) ]
    /\ page_cache' = NoBundle
    /\ db_cache' = EmptyDbCache
    /\ UNCHANGED << dataset, upload, disk, runs, sess, load_out, result >>

\* lines 220-224, then main.py 537-540: load_all_models.clear()
TrainReturn ==
    /\ trainer.pc = "persist"
    /\ trainer.k = Len(PersistOrder)
    /\ trainer' = Ended(trainer.printed)
    /\ train_out' = [ status |-> "returned", error |-> NoError,
                      value  |-> Bundle(trainer.new) ]
    /\ page_cache' = NoBundle
    /\ UNCHANGED << dataset, upload, disk, runs, sess, load_out, db_cache,
                    result >>

\* main.py 540-542: the message is shown and the script run is over
TrainPageEnd ==
    /\ trainer.pc = "done"
    /\ trainer' = IdleTrainer
    /\ train_out' = NoTrainOut
    /\ UNCHANGED << dataset, upload, disk, runs, sess, load_out, page_cache,
                    db_cache, result >>


(***************************************************************************)
(* The Predict page (main.py 233-272, one uploaded file) and the Database  *)
(* tab's run_prediction (database_dashboard.py 338-358).  Both obtain the  *)
(* bundle from their own cache, or from load_models, and call predict.     *)
(***************************************************************************)
\* the script run after its last statement, before it is left
Finished(caller) == [ IdleSess EXCEPT !.pc = "done", !.caller = caller ]

\* main.py 236-237: load_all_models(), a cache hit or a call of load_models
PageRun ==
    /\ sess.pc = "idle"
    /\ sess' = IF page_cache # NoBundle
                 THEN [ IdleSess EXCEPT !.pc = "loaded", !.caller = "page",
                                        !.bundle = page_cache ]
                 ELSE [ IdleSess EXCEPT !.pc = "loading", !.caller = "page" ]
    /\ UNCHANGED << dataset, upload, disk, runs, trainer, train_out, load_out,
                    page_cache, db_cache, result >>

\* database_dashboard.py 350-353: _load_models(); a cached error gives None
DbRun ==
    /\ sess.pc = "idle"
    /\ IF db_cache.state = "error"
         THEN /\ sess' = Finished("db")
              /\ result' = [ status |-> "none_returned", caller |-> "db" ]
         ELSE /\ sess' = IF db_cache.state = "models"
                           THEN [ IdleSess EXCEPT !.pc = "loaded", !.caller = "db",
                                                  !.bundle = db_cache.models ]
                           ELSE [ IdleSess EXCEPT !.pc = "loading", !.caller = "db" ]
              /\ result' = result
    /\ UNCHANGED << dataset, upload, disk, runs, trainer, train_out, load_out,
                    page_cache, db_cache >>

\* (variant: the two scalers read into each other's place)
BundleWithScalersSwapped(b, p, a) ==
    IF p = CLF_PATH THEN [ b EXCEPT !.clf = a ]
    ELSE IF p = SCALER_PATH THEN [ b EXCEPT !.img_scaler = a ]
    ELSE IF p = ENCODER_PATH THEN [ b EXCEPT !.le = a ]
    ELSE IF p = REG_PATH THEN [ b EXCEPT !.regressors = a ]
    ELSE [ b EXCEPT !.scaler = a ]

\* load_models, lines 233-237: the object read from path p, as the local
\* that line 240 returns
BundleWith(b, p, a) ==
    IF p = CLF_PATH THEN [ b EXCEPT !.clf = a ]
    ELSE IF p = SCALER_PATH THEN [ b EXCEPT !.scaler = a ]
    ELSE IF p = ENCODER_PATH THEN [ b EXCEPT !.le = a ]
    ELSE IF p = REG_PATH THEN [ b EXCEPT !.regressors = a ]
    ELSE [ b EXCEPT !.img_scaler = a ]

\* (variant: an absent file is read as nothing and the load goes on)
LoadStepFileSkipsAbsent(p) ==
    /\ sess' = [ sess EXCEPT !.k = sess.k + 1,
                             !.bundle = BundleWith(sess.bundle, p, disk[p]) ]
    /\ UNCHANGED << load_out, db_cache, result >>

\* load_models, lines 233-237: the next open(..., 'rb') and pickle.load.
\* An absent file raises FileNotFoundError: main.py 239-241 shows it and
\* stops; _load_models (343-344) caches (None, message).
LoadStepFile(p) ==
    IF disk[p] = NoFile
      THEN /\ load_out' = "FileNotFoundError"
           /\ sess' = Finished(sess.caller)
           /\ IF sess.caller = "db"
                THEN /\ db_cache' = [ state |-> "error", models |-> NoBundle ]
                     /\ result' = [ status |-> "none_returned", caller |-> "db" ]
                ELSE /\ db_cache' = db_cache
                     /\ result' = result
      ELSE /\ sess' = [ sess EXCEPT !.k = sess.k + 1,
                                    !.bundle = BundleWith(sess.bundle, p, disk[p]) ]
           /\ UNCHANGED << load_out, db_cache, result >>

LoadStep ==
    /\ sess.pc = "loading"
    /\ sess.k < Len(PersistOrder)
    /\ LoadStepFile(PersistOrder[sess.k + 1])
    /\ UNCHANGED << dataset, upload, disk, runs, trainer, train_out,
                    page_cache >>

\* lines 238-240: attach the image scaler and return; the caller's cache
\* keeps the value
LoadReturn ==
    /\ sess.pc = "loading"
    /\ sess.k = Len(PersistOrder)
    /\ load_out' = "returned"
    /\ sess' = [ sess EXCEPT !.pc = "loaded" ]
    /\ IF sess.caller = "db"
         THEN /\ db_cache' = [ state |-> "models", models |-> sess.bundle ]
              /\ page_cache' = page_cache
         ELSE /\ page_cache' = sess.bundle
              /\ db_cache' = db_cache
    /\ UNCHANGED << dataset, upload, disk, runs, trainer, train_out, result >>

\* (variant: predict detaches the image scaler of the classifier it was
\* given, which is the object the page cache holds)
PredictFrameDetaches ==
    /\ page_cache' = [ page_cache EXCEPT !.img_scaler = NoFile ]
    /\ UNCHANGED << dataset, upload, disk, runs, trainer, train_out, load_out,
                    db_cache >>

\* lines 247-293: predict assigns to locals only; transform, predict_proba,
\* inverse_transform and predict of scikit-learn leave their objects as
\* they are, and no file is written
PredictFrame ==
    UNCHANGED << dataset, upload, disk, runs, trainer, train_out, load_out,
                 page_cache, db_cache >>

\* (variant: the handler fills in a dict of defaults)
FailedWithDefaults(caller, e, proba) ==
    [ status  |-> "ok", caller |-> caller,
      value   |-> [ disease_type |-> "", confidence |-> 0,
                    class_probs |-> << >>, soil_predictions |-> {},
                    image_features |-> << >>, health_score |-> 0,
                    severity |-> "Severe" ],
      proba   |-> proba,
      tab_vec |-> << >> ]

\* main.py 258-260 and database_dashboard.py 357-358: the exception of
\* predict is caught and the caller has None, no dict
Failed(caller, e, proba) ==
    [ status |-> "failed", caller |-> caller, exc |-> e.exc, at |-> e.at,
      proba |-> proba ]

\* main.py 254-262 and database_dashboard.py 354-358: predict on the
\* bundle; an exception becomes None.  The Predict page opens the upload
\* itself (255) inside the same try.  tab_vec is the row predict hands to
\* the scaler, proba the row the classifier returns.
PredictCall(img) ==
    /\ sess.pc = "loaded"
    /\ LET b == sess.bundle
           e == IF sess.caller = "page" /\ ~Readable(img)
                  THEN PredictRaisedAt("UnidentifiedImageError", "Image.open")
                  ELSE PredictPrefixError(img, b)
       IN  IF e.exc # "none"
             THEN result' = Failed(sess.caller, e, << >>)
             ELSE \E proba \in ProbaVectors(Len(b.clf.classes_)) :
                    LET tab_vec == TabularProxyRow(img)
                        raised  == PredictError(tab_vec, b, proba)
                    IN  result' =
                          IF raised.exc # "none"
                            THEN Failed(sess.caller, raised, proba)
                            ELSE [ status  |-> "ok", caller |-> sess.caller,
                                   value   |-> predict(img, b, proba),
                                   proba   |-> proba,
                                   tab_vec |-> tab_vec ]
    /\ sess' = Finished(sess.caller)
    /\ PredictFrame

PredictStep == PredictCall(upload)

\* main.py 264-272 and database_dashboard.py 358: the result is shown (or
\* returned to the tab) and the script run is over
SessEnd ==
    /\ sess.pc = "done"
    /\ sess' = IdleSess
    /\ load_out' = "none"
    /\ result' = NoResult
    /\ UNCHANGED << dataset, upload, disk, runs, trainer, train_out,
                    page_cache, db_cache >>

(***************************************************************************)
(* Spec: the app.  Sessions run in threads of one process, so a session    *)
(* that loads may run between any two steps of a session that trains.      *)
(***************************************************************************)
Init ==
    /\ dataset \in AppDatasets
    /\ upload \in AppImages
    /\ InitRest

TrainPage ==
    /\ runs < MaxRuns
    /\ TrainCall

Next ==
    \/ TrainPage
    \/ TrainFit
    \/ PersistStep
    \/ PersistRaises
    \/ TrainReturn
    \/ TrainPageEnd
    \/ PageRun
    \/ DbRun
    \/ LoadStep
    \/ LoadReturn
    \/ PredictStep
    \/ SessEnd

Spec == Init /\ [][Next]_vars

(***************************************************************************)
(* SpecPipeline: one train call run to its end, then one load and one      *)
(* prediction, over all datasets and all images within the bounds.         *)
(***************************************************************************)
InitPipeline ==
    /\ \/ dataset \in BoundedDatasets /\ upload = LeafImage
       \/ dataset \in UnreadableDatasets /\ upload = LeafImage
       \/ dataset = GoodData /\ upload \in BoundedImages
    /\ InitRest

TrainOnce ==
    /\ runs = 0
    /\ TrainCall

\* the Predict page, opened once the train call has returned
PageRunAfterTrain ==
    /\ trainer.pc = "done"
    /\ train_out.status = "returned"
    /\ result = NoResult
    /\ PageRun

NextPipeline ==
    \/ TrainOnce
    \/ TrainFit
    \/ PersistStep
    \/ TrainReturn
    \/ PageRunAfterTrain
    \/ LoadStep
    \/ LoadReturn
    \/ PredictStep

SpecPipeline == InitPipeline /\ [][NextPipeline]_vars

(***************************************************************************)
(* SpecPredict: one call of predict on arguments its signature admits.     *)
(* train has run once on GoodData; the caller passes the objects of the    *)
(* bundle, or passes None for some of them (a classifier unpickled by hand *)
(* has no _img_scaler), and an image or an input that is no image.  The    *)
(* pages of the app call it with a whole bundle.                           *)
(***************************************************************************)
BundleFields == { "clf", "img_scaler", "scaler", "le", "regressors" }

\* the bundle b passed without the objects named in m
Without(b, m) == [ f \in DOMAIN b |-> IF f \in m THEN NoFile ELSE b[f] ]

Callers == { "api", "page", "db" }

InitPredict ==
    /\ dataset = GoodData
    /\ runs = 1
    /\ trainer = IdleTrainer
    /\ train_out = NoTrainOut
    /\ load_out = "none"
    /\ page_cache = NoBundle
    /\ db_cache = EmptyDbCache
    /\ result = NoResult
    /\ \E tr \in StratifiedSplits(TrainYv(GoodData)) :
         disk = TrainArtifacts(1, GoodData, tr)
    /\ \E m \in SUBSET BundleFields, c \in Callers :
         /\ c # "api" => m = {}
         /\ sess = [ IdleSess EXCEPT !.pc = "loaded", !.caller = c,
                                     !.bundle = Without(Bundle(disk), m) ]
         /\ \/ upload \in BoundedImages \cup { NoPixels } /\ m = {}
            \/ upload \in { LeafImage, NoPixels }

NextPredict ==
    \/ PredictStep
    \/ SessEnd

SpecPredict == InitPredict /\ [][NextPredict]_vars

(***************************************************************************)
(* SpecBatch: one run of the Predict page over a list of uploaded files,   *)
(* main.py 233-272, in a process whose disk holds the files of a training  *)
(* on GoodData.  upload is the list uploaded_files, each file a name and a *)
(* source that is an image or no image; result holds the lists the loop    *)
(* builds and its error count.                                             *)
(***************************************************************************)
\* Python's None as an entry of results
None == [ none |-> TRUE ]

\* main.py 251-252: images, results, names = [], [], []; errors = 0
EmptyBatch ==
    [ status |-> "batch", images |-> << >>, results |-> << >>,
      names |-> << >>, errors |-> 0 ]

\* main.py 255-256: Image.open(src).convert("RGB") or predict raises
PageTryFails(src, b, proba) ==
    \/ ~Readable(src)
    \/ PredictPrefixError(src, b).exc # "none"
    \/ PredictError(TabularProxyRow(src), b, proba).exc # "none"

\* (variant: a file that fails is left out of the lists)
AfterFileDropsFailure(acc, f, b, proba) ==
    IF PageTryFails(f.src, b, proba)
      THEN [ acc EXCEPT !.errors = @ + 1 ]
      ELSE [ acc EXCEPT !.images  = Append(@, f.src),
                        !.results = Append(@, predict(f.src, b, proba)),
                        !.names   = Append(@, f.nm) ]

\* main.py 254-262: one pass of the loop body on the file f = (nm, src); an
\* image that is None is written NoPixels
AfterFile(acc, f, b, proba) ==
    IF PageTryFails(f.src, b, proba)
      THEN [ acc EXCEPT !.images  = Append(@, NoPixels),
                        !.results = Append(@, None),
                        !.names   = Append(@, f.nm),
                        !.errors  = @ + 1 ]
      ELSE [ acc EXCEPT !.images  = Append(@, f.src),
                        !.results = Append(@, predict(f.src, b, proba)),
                        !.names   = Append(@, f.nm) ]

\* main.py 246-252: the bundle is there, the loop is about to start
BatchStart ==
    /\ sess.pc = "loaded"
    /\ sess.caller = "page"
    /\ result = NoResult
    /\ sess' = [ sess EXCEPT !.pc = "batch", !.k = 0 ]
    /\ result' = EmptyBatch
    /\ PredictFrame

\* main.py 253-262: the pass for uploaded_files[idx], idx = sess.k
BatchStep ==
    /\ sess.pc = "batch"
    /\ sess.k < Len(upload)
    /\ LET f == upload[sess.k + 1]
           b == sess.bundle
       IN  IF ~Readable(f.src) \/ PredictPrefixError(f.src, b).exc # "none"
             THEN result' = AfterFile(result, f, b, << >>)
             ELSE \E proba \in ProbaVectors(Len(b.clf.classes_)) :
                    result' = AfterFile(result, f, b, proba)
    /\ sess' = [ sess EXCEPT !.k = sess.k + 1 ]
    /\ PredictFrame

\* main.py 270-272: the loop is over, the counts are shown
BatchEnd ==
    /\ sess.pc = "batch"
    /\ sess.k = Len(upload)
    /\ sess' = Finished("page")
    /\ result' = result
    /\ PredictFrame

BatchSources == { LeafImage, GreenImage, NoPixels }

\* the lists of 1..MaxFiles files; the name of a file is its place in the list
BoundedUploads ==
    UNION { { [ i \in 1..n |-> [ nm |-> i, src |-> srcs[i] ] ] :
                srcs \in [ 1..n -> BatchSources ] } : n \in 1..MaxFiles }

InitBatch ==
    /\ dataset = GoodData
    /\ upload \in BoundedUploads
    /\ \E tr \in StratifiedSplits(TrainYv(GoodData)) :
         disk = TrainArtifacts(1, GoodData, tr)
    /\ runs = 1
    /\ trainer = IdleTrainer
    /\ train_out = NoTrainOut
    /\ sess = IdleSess
    /\ load_out = "none"
    /\ page_cache = NoBundle
    /\ db_cache = EmptyDbCache
    /\ result = NoResult

NextBatch ==
    \/ PageRun
    \/ LoadStep
    \/ LoadReturn
    \/ BatchStart
    \/ BatchStep
    \/ BatchEnd

SpecBatch == InitBatch /\ [][NextBatch]_vars

(***************************************************************************)
(* SpecRetrain: a process that starts with the five files of an earlier    *)
(* process's training on disk (run 0).  One train call on any small        *)
(* dataset, or on one that trains, runs to its end; then the Predict page  *)
(* is opened once.                                                         *)
(***************************************************************************)
\* what an earlier process that trained on GoodData left on disk
PriorArtifacts ==
    { TrainArtifacts(0, GoodData, tr) : tr \in StratifiedSplits(TrainYv(GoodData)) }

RetrainDatasets ==
    { d \in BoundedDatasets : NumRows(d) <= MaxRecords \div 2 }
      \cup UnreadableDatasets \cup { GoodData, GapData, NoImageData }

InitRetrain ==
    /\ dataset \in RetrainDatasets
    /\ upload = LeafImage
    /\ disk \in PriorArtifacts
    /\ runs = 0
    /\ trainer = IdleTrainer
    /\ train_out = NoTrainOut
    /\ sess = IdleSess
    /\ load_out = "none"
    /\ page_cache = NoBundle
    /\ db_cache = EmptyDbCache
    /\ result = NoResult

\* the Predict page, opened once the train call has ended, however it ended
PageRunAfterTrainEnded ==
    /\ trainer.pc = "done"
    /\ result = NoResult
    /\ PageRun

NextRetrain ==
    \/ TrainOnce
    \/ TrainFit
    \/ PersistStep
    \/ TrainReturn
    \/ PageRunAfterTrainEnded
    \/ LoadStep
    \/ LoadReturn
    \/ PredictStep

SpecRetrain == InitRetrain /\ [][NextRetrain]_vars


(***************************************************************************)
(* Claims.                                                                 *)
(***************************************************************************)
Predicted == result.status = "ok"

\* C1: the health_score of every result is 100 - spot_area_ratio * 200 -
\* (disease_color_index - 1) * 20 of the image's own features, raised to 0
\* when below 0 and lowered to 100 when above 100.
C1_HealthClamped ==
    Predicted =>
      LET f   == result.value.image_features
          h   == result.value.health_score
          raw == 100 * SCALE - f.spot_area_ratio * 200
                   - (f.disease_color_index - SCALE) * 20
      IN  /\ f = extract_image_features(upload)
          /\ h >= 0
          /\ h <= 100 * SCALE
          /\ raw < 0 => h = 0
          /\ raw > 100 * SCALE => h = 100 * SCALE
          /\ (raw >= 0 /\ raw <= 100 * SCALE) => h = raw

\* a result whose unclamped score is negative and whose health_score is 0
C1_Witness ==
    /\ Predicted
    /\ RawHealth(result.value.image_features.spot_area_ratio,
                 result.value.image_features.disease_color_index) < 0
    /\ result.value.health_score = 0

\* C2: severity is decided by health_score alone, with inclusive lower
\* bounds 80 (Healthy), 60 (Mild), 40 (Moderate), Severe below 40.
C2_SeverityTiers ==
    Predicted =>
      LET h  == result.value.health_score
          sv == result.value.severity
      IN  /\ sv \in { "Healthy", "Mild", "Moderate", "Severe" }
          /\ sv = "Healthy"  <=> h >= 80 * SCALE
          /\ sv = "Mild"     <=> (h >= 60 * SCALE /\ h < 80 * SCALE)
          /\ sv = "Moderate" <=> (h >= 40 * SCALE /\ h < 60 * SCALE)
          /\ sv = "Severe"   <=> h < 40 * SCALE

\* a result whose health_score is exactly 80 and is Healthy
C2_Witness ==
    /\ Predicted
    /\ result.value.health_score = 80 * SCALE
    /\ result.value.severity = "Healthy"


C6_ColumnNames ==
    Predicted =>
      LET v      == result.value
          pr     == result.proba
          fitted == page_cache.clf.label_of_column
      IN  /\ v.disease_type = fitted[ArgMax(pr) + 1]
          /\ \A j \in 1..Len(pr) :
                /\ fitted[j] \in DOMAIN v.class_probs
                /\ v.class_probs[fitted[j]] = (pr[j] * 100 * SCALE) \div ProbaSteps

(***************************************************************************)
(* The dataset of the call, read without the model's operators: row i      *)
(* (0-based) matches the image numbered i + 1 while there are at most 1000 *)
(* rows.                                                                   *)
(***************************************************************************)
Trained == runs >= 1

TrainEnded == Trained /\ trainer.pc = "done"

RowsWithImage ==
    { i \in 0..(Len(dataset.labels) - 1) : (i + 1) \in dataset.images }

RowsWithoutImage ==
    { i \in 0..(Len(dataset.labels) - 1) : (i + 1) \notin dataset.images }

HasAllColumns ==
    /\ TARGET_CLASS \in dataset.columns
    /\ \A k \in 1..Len(SOIL_FEATURES) : SOIL_FEATURES[k] \in dataset.columns

FewerThanTwoClasses ==
    /\ TARGET_CLASS \in dataset.columns
    /\ Cardinality({ dataset.labels[k] : k \in 1..Len(dataset.labels) }) < 2

NothingPersisted == \A p \in Paths : disk[p] = NoFile

SoilColumnMissing ==
    /\ TARGET_CLASS \in dataset.columns
    /\ \E k \in 1..Len(SOIL_FEATURES) : SOIL_FEATURES[k] \notin dataset.columns

AbsentSoilColumns ==
    { SOIL_FEATURES[k] : k \in 1..Len(SOIL_FEATURES) } \ dataset.columns

C10_DropAccounting ==
    LET N == Len(dataset.labels)
        K == Cardinality(RowsWithoutImage)
    IN  /\ trainer.pc = "matched" =>
             /\ Range(trainer.valid_idx) = RowsWithImage
             /\ Len(trainer.valid_idx) = N - K
             /\ trainer.printed = << N - K >>
        /\ trainer.pc = "persist" =>
             /\ trainer.printed = << N - K >>
             /\ trainer.new[IMG_SCALER_PATH].n_samples_seen_ = N - K
             /\ trainer.new[CLF_PATH].n_rows + trainer.new[REG_PATH].n_val = N - K

\* a call that dropped rows and went on to persist
C10_Witness ==
    /\ trainer.pc = "persist"
    /\ Cardinality(RowsWithoutImage) >= 1
    /\ Cardinality(RowsWithImage) >= 7


(***************************************************************************)
(* Claims on the files and the loaded bundle (specification Spec).         *)
(***************************************************************************)
\* the bundles a load_models call has returned and a caller still holds
HeldBundles ==
    (IF sess.pc = "loaded" THEN { sess.bundle } ELSE {})
      \cup (IF page_cache # NoBundle THEN { page_cache } ELSE {})
      \cup (IF db_cache.state = "models" THEN { db_cache.models } ELSE {})

BundleParts(b) == { b.clf, b.img_scaler, b.scaler, b.le, b.regressors }

\* C3: the five artifacts of a bundle that load_models returned were made by
\* one and the same train call.
C3_SameRun ==
    \A b \in HeldBundles : Cardinality(BundleRuns(b)) = 1

C4_NoPartialBundle ==
    /\ \A b \in HeldBundles : NoFile \notin BundleParts(b)
    /\ load_out \in { "none", "returned", "FileNotFoundError" }
    /\ load_out = "FileNotFoundError" =>
         /\ sess.pc = "done"
         /\ sess.bundle = NoBundle
         /\ result.status \notin { "ok", "failed" }

\* the step of load_models at an absent file
C4_AbsentFileRaises ==
    [][ (sess.pc = "loading" /\ sess.k < Len(PersistOrder)
           /\ disk[PersistOrder[sess.k + 1]] = NoFile /\ sess' # sess)
        => /\ load_out' = "FileNotFoundError"
           /\ sess'.pc = "done"
           /\ page_cache' = page_cache
           /\ db_cache'.state = IF sess.caller = "db" THEN "error" ELSE db_cache.state
      ]_vars

\* the step of predict
C4_PredictOnFullBundle ==
    [][ (result' # result /\ result'.status \in { "ok", "failed" })
        => /\ sess.pc = "loaded"
           /\ NoFile \notin BundleParts(sess.bundle)
      ]_vars

C11_ScalerOnMatchedRows ==
    trainer.pc = "persist" =>
      trainer.new[SCALER_PATH].n_samples_seen_ = Cardinality(RowsWithImage)

\* the matched rows whose image can be read
ReadableMatchedRows ==
    { i \in RowsWithImage : (i + 1) \notin dataset.unreadable }

\* C12: a matched image that cannot be read does not end train: the call
\* does not end with the exception of the extraction, and once past the
\* loop valid_idx holds exactly the matched rows whose image can be read.
C12_ExtractionFailureSkipsRecord ==
    (Trained /\ HasAllColumns) =>
      /\ trainer.pc = "done" => train_out.error.at # "_rich_image_vector"
      /\ trainer.pc = "matched" =>
           Range(trainer.valid_idx) = ReadableMatchedRows


(***************************************************************************)
(* Claims on one call of predict (specification SpecPredict).              *)
(***************************************************************************)
\* a direct call of predict ends in this step
ApiPredictEnds ==
    sess.pc = "loaded" /\ sess.caller = "api" /\ sess'.pc = "done"

ResultFields ==
    { "disease_type", "confidence", "class_probs", "soil_predictions",
      "image_features", "health_score", "severity" }

\* C14: a call of predict, made directly or by a page, ends either with a
\* result of exactly the seven fields, computed from a readable image and
\* a whole bundle and naming a class of the encoder, or with no result at
\* all; an unreadable image or a missing artifact never yields a result.
C14_AllOrNothing ==
    [][ (sess.pc = "loaded" /\ sess'.pc = "done") =>
          LET fails == ~Readable(upload) \/ NoFile \in BundleParts(sess.bundle)
          IN  /\ result'.status \in { "ok", "failed" }
              /\ fails => result'.status = "failed"
              /\ result'.status = "failed" => "value" \notin DOMAIN result'
              /\ result'.status = "ok" =>
                    /\ DOMAIN result'.value = ResultFields
                    /\ result'.value.disease_type
                          \in Range(sess.bundle.le.classes_)
                    /\ result'.value.disease_type
                          \in DOMAIN result'.value.class_probs
                    /\ DOMAIN result'.value.image_features = Range(FeatureKeys)
      ]_vars

\* the Predict page with an upload that is no image: no result
C14_Witness ==
    /\ result.status = "failed"
    /\ result.caller = "page"
    /\ ~Readable(upload)
    /\ "value" \notin DOMAIN result


BlockIs(v, i, j, name) == \A k \in (i + 1)..j : v[k].block = name

\* C17: the descriptor predict computes from an image of any number of
\* pixels has 135 entries: [0:54] spatial colour stats, [54:118] luminance
\* histogram, [118:123] the scalars mean_green_intensity, color_variance,
\* texture_entropy, spot_area_ratio, disease_color_index in this order and
\* with the values of extract_image_features, [123:135] quadrant texture.
C17_DescriptorLayout ==
    (result.status = "ok") =>
      LET v == RichImageVector(upload)
          f == extract_image_features(upload)
      IN  /\ Len(v) = 135
          /\ BlockIs(v, 0, 54, "spatial")
          /\ BlockIs(v, 54, 118, "lum_hist")
          /\ BlockIs(v, 118, 123, "scalars")
          /\ BlockIs(v, 123, 135, "quad_std")
          /\ v[119].key = "mean_green_intensity"
          /\ v[120].key = "color_variance"
          /\ v[121].key = "texture_entropy"
          /\ v[122].key = "spot_area_ratio"
          /\ v[123].key = "disease_color_index"
          /\ \A k \in 119..123 : v[k].value = f[v[k].key]

\* results for an image of one pixel and for one of MaxPixels pixels
C17_Witness ==
    /\ result.status = "ok"
    /\ Len(upload) \in { 1, MaxPixels }
    /\ Len(RichImageVector(upload)) = 135

Uniform(img) == Readable(img) /\ \A p \in 1..Len(img) : img[p] = img[1]

\* C18: for an image whose pixels are all equal no pixel is darker than the
\* mean: the dark-spot mask is empty, and the features predict returns have
\* spot_area_ratio 0 and disease_color_index 0.
C18_UniformNoSpots ==
    (result.status = "ok" /\ Uniform(upload)) =>
      /\ { p \in 1..Len(upload) :
             Gray(upload[p]) * Len(upload) < GraySum(upload) } = {}
      /\ SpotMask(upload) = {}
      /\ result.value.image_features.spot_area_ratio = 0
      /\ result.value.image_features.disease_color_index = 0

\* a result for several equal pixels whose red exceeds their green
C18_Witness ==
    /\ result.status = "ok"
    /\ Uniform(upload)
    /\ Len(upload) >= 2
    /\ upload[1] = Brown

SolidGreen(img) == Readable(img) /\ \A p \in 1..Len(img) : img[p] = << 0, 255, 0 >>

\* C19: for an image whose pixels are all (0, 255, 0) predict returns
\* mean_green_intensity 255, spot_area_ratio 0, disease_color_index 0,
\* health_score 100 and severity "Healthy".
C19_SolidGreen ==
    (result.status = "ok" /\ SolidGreen(upload)) =>
      /\ result.value.image_features.mean_green_intensity = 255 * SCALE
      /\ result.value.image_features.spot_area_ratio = 0
      /\ result.value.image_features.disease_color_index = 0
      /\ result.value.health_score = 100 * SCALE
      /\ result.value.severity = "Healthy"

\* a result for the solid-green image
C19_Witness ==
    /\ result.status = "ok"
    /\ upload = GreenImage
    /\ result.value.health_score = 100 * SCALE

SensorColumns ==
    << "soil_moisture", "soil_pH", "soil_temperature",
       "nitrogen", "phosphorus", "potassium" >>

\* C20: the row predict hands to the soil scaler has the 11 columns of
\* SOIL_FEATURES in their order: the six sensor columns first, each 0, then
\* the five image-derived columns, each holding the scalar of that name
\* computed from the image; the same scalars are returned as image_features.
C20_ProxyRow ==
    (result.status = "ok") =>
      LET row == result.tab_vec
          f   == extract_image_features(upload)
      IN  /\ Len(row) = 11
          /\ Len(SOIL_FEATURES) = 11
          /\ \A k \in 1..6 : SOIL_FEATURES[k] = SensorColumns[k] /\ row[k] = 0
          /\ { SOIL_FEATURES[k] : k \in 7..11 } = Range(FeatureKeys)
          /\ \A k \in 7..11 : row[k] = f[SOIL_FEATURES[k]]
          /\ result.value.image_features = f
          /\ DOMAIN result.value.image_features = Range(FeatureKeys)

\* a result whose row holds five scalars that are not 0
C20_Witness ==
    /\ result.status = "ok"
    /\ \A k \in 7..11 : result.tab_vec[k] > 0
    /\ \A k \in 1..6 : result.tab_vec[k] = 0

\* C21: train fits 11 regressors, one per name of SOIL_FEATURES, each on the
\* 11 columns of the soil-scaled tabular features and not on the 146 columns
\* of the combined vector; predict hands each of them its 11-column row, and
\* soil_predictions has the 11 names of SOIL_FEATURES as its keys.
C21_ElevenRegressors ==
    /\ \A regs \in { disk[REG_PATH], trainer.new[REG_PATH], sess.bundle.regressors } :
         regs # NoFile =>
           /\ regs.keys = SOIL_FEATURES
           /\ Cardinality(Range(regs.keys)) = 11
           /\ regs.n_features_in_ = 11
           /\ regs.n_features_in_ # Len(TrainColumns)
    /\ result.status = "ok" =>
         /\ Len(result.tab_vec) = 11
         /\ result.value.soil_predictions = Range(SOIL_FEATURES)
         /\ Cardinality(result.value.soil_predictions) = 11

\* a prediction made with the regressors a train call persisted
C21_Witness ==
    /\ result.status = "ok"
    /\ disk[REG_PATH].run = 1
    /\ Cardinality(result.value.soil_predictions) = 11

\* C22: every gray value 0..255 lies in exactly one of the 64 bins of the
\* luminance histogram, 255 in the last one, so the counts sum to the number
\* of pixels N of the image.  The normalised histogram, counts / (N + 1e-9),
\* then sums to N / (N + 1e-9), which is within 1e-6 of 1 exactly when
\* 1e-9 <= 1e-6 * (N + 1e-9), that is when 1000 * N >= 1.
C22_LumHistSumsToOne ==
    /\ \A v \in 0..255 :
         /\ LumBin(v) \in 0..63
         /\ 255 * LumBin(v) <= 64 * v
         /\ 64 * v < 255 * (LumBin(v) + 1) \/ (v = 255 /\ LumBin(v) = 63)
    /\ Readable(upload) =>
         LET N == SumOver(1..64, LumHistCounts(upload))
         IN  /\ N = NumPixels(upload)
             /\ 1000 * N >= 1

\* a prediction for an image whose pixels lie in several bins
C22_Witness ==
    /\ result.status = "ok"
    /\ Cardinality({ k \in 1..64 : LumHistCounts(upload)[k] > 0 }) >= 3

\* C23: the texture_entropy of every image, a uniform one included, lies
\* within [0, 8].
C23_EntropyInRange ==
    result.status = "ok" =>
      /\ result.value.image_features.texture_entropy >= 0
      /\ result.value.image_features.texture_entropy <= 8 * SCALE

\* C24: the 146 columns of the row predict hands to the classifier measure,
\* one by one, what the columns of the X_all of train measure: first the 135
\* of the descriptor (spatial, lum_hist, the five scalars in the order of
\* their keys, quad_std), then the 11 tabular ones in the order of
\* SOIL_FEATURES.
C24_SameColumnOrder ==
    result.status = "ok" =>
      LET cols == PredictColumns(upload)
      IN  /\ Len(cols) = 146
          /\ Len(TrainColumns) = 146
          /\ disk[CLF_PATH].n_features_in_ = 146
          /\ \A j \in 1..146 : cols[j] = TrainColumns[j]
          /\ \A j \in 1..54 : cols[j].block = "spatial"
          /\ \A j \in 55..118 : cols[j].block = "lum_hist"
          /\ \A k \in 1..5 :
                cols[118 + k] = [ block |-> "scalars", key |-> FeatureKeys[k] ]
          /\ \A j \in 124..135 : cols[j].block = "quad_std"
          /\ \A k \in 1..11 :
                cols[135 + k] = [ block |-> "tabular", key |-> SOIL_FEATURES[k] ]

\* a prediction made with the classifier a train call returned
C24_Witness ==
    /\ result.status = "ok"
    /\ train_out.status = "returned"
    /\ disk[CLF_PATH].run = 1
    /\ PredictColumns(upload)[146].key = "disease_color_index"

\* the regions the entries of a block are computed on, channels apart
RegionsOf(entries) ==
    { [ rows |-> entries[k].of.rows, cols |-> entries[k].of.cols ] :
        k \in 1..Len(entries) }

\* every pixel of the 128 x 128 array lies in exactly one of the regions
CoversOnce(regions) ==
    \A y \in 0..127, x \in 0..127 :
        Cardinality({ r \in regions : InPatch(r, y, x) }) = 1

GridCoversOnce == CoversOnce(RegionsOf(SpatialEntries))

QuadsCoverOnce == CoversOnce(RegionsOf(QuadEntries))

\* C25: on the 128 x 128 array the nine regions of the 3 x 3 grid, with row
\* and column bounds floor(i * 128 / 3), are pairwise disjoint and hold
\* every pixel once, and so do the four quadrants with bounds
\* floor(i * 128 / 2); the regions are visited row by row, then the channels
\* R, G, B, then mean and std for the grid and std alone for the quadrants:
\* 54 and 12 values, which are the columns 1..54 and 124..135 of predict.
C25_GridPartition ==
    /\ Cardinality(RegionsOf(SpatialEntries)) = 9
    /\ GridCoversOnce
    /\ Cardinality(RegionsOf(QuadEntries)) = 4
    /\ QuadsCoverOnce
    /\ Len(SpatialEntries) = 54
    /\ Len(QuadEntries) = 12
    /\ result.status = "ok" =>
        LET cols == PredictColumns(upload) IN
         /\ \A ri \in 0..2, ci \in 0..2, c \in 0..2 :
              LET j  == ((ri * 3 + ci) * 3 + c) * 2
                  of == [ rows |-> << (ri * 128) \div 3, ((ri + 1) * 128) \div 3 >>,
                          cols |-> << (ci * 128) \div 3, ((ci + 1) * 128) \div 3 >>,
                          channel |-> c ]
              IN  /\ cols[j + 1] =
                        [ block |-> "spatial", stat |-> "mean", of |-> of ]
                  /\ cols[j + 2] =
                        [ block |-> "spatial", stat |-> "std", of |-> of ]
         /\ \A ri \in 0..1, ci \in 0..1, c \in 0..2 :
              LET j  == 123 + (ri * 2 + ci) * 3 + c
                  of == [ rows |-> << (ri * 128) \div 2, ((ri + 1) * 128) \div 2 >>,
                          cols |-> << (ci * 128) \div 2, ((ci + 1) * 128) \div 2 >>,
                          channel |-> c ]
              IN  cols[j + 1] =
                    [ block |-> "quad_std", stat |-> "std", of |-> of ]

\* a prediction whose columns end with the std of blue in the last quadrant
C25_Witness ==
    /\ result.status = "ok"
    /\ PredictColumns(upload)[54].of.rows = << 85, 128 >>
    /\ PredictColumns(upload)[135].of.cols = << 64, 128 >>
    /\ PredictColumns(upload)[135].of.channel = 2

\* a train call that raised before it opened a file to write
TrainFailedEarly ==
    /\ trainer.pc = "done"
    /\ train_out.status = "raised"
    /\ train_out.error.at \notin Paths

\* the files are those of the earlier training, and the page loads them whole
\* and predicts with them
FilesIntact ==
    TrainFailedEarly =>
      /\ disk \in PriorArtifacts
      /\ load_out # "FileNotFoundError"
      /\ load_out = "returned" => page_cache = Bundle(disk)
      /\ result # NoResult => result.status = "ok"

\* no step of a train call that ends by raising writes a file
NoWriteOnFailure ==
    [][ (train_out'.status = "raised" /\ train_out'.error.at \notin Paths)
          => disk' = disk ]_vars

\* C26: when train fails at a step before persistence (the labels, the
\* scalers, the extraction, the split or the fit), none of the five files is
\* written or changed: a bundle persisted earlier is still there, whole, and
\* loads.
C26_FailedTrainLeavesFiles == []FilesIntact /\ NoWriteOnFailure

\* a train call that failed at the split, after which the page predicted with
\* the earlier bundle
C26_Witness ==
    /\ TrainFailedEarly
    /\ train_out.error.at = "train_test_split"
    /\ result.status = "ok"
    /\ BundleRuns(page_cache) = { 0 }

\* the five files are those of train call r, and no train call is running
DiskHoldsRun(r) ==
    /\ trainer.pc = "idle"
    /\ r >= 1
    /\ \A p \in Paths : disk[p].run = r

\* C27: once a training run of the Train page has succeeded the cache of the
\* Predict page is cleared, so a Predict-page run that starts when the files
\* of that run are on disk predicts with the bundle of that run, never with
\* one from before it.
C27_PredictPageUsesLastRun ==
    [][ \A r \in 1..MaxRuns :
          (DiskHoldsRun(r) /\ sess.pc = "idle" /\ sess'.pc = "loaded"
             /\ sess'.caller = "page")
            => BundleRuns(sess'.bundle) = { r } ]_vars

\* a step in which run_prediction is entered
DbEntered == sess.pc = "idle" /\ sess'.caller = "db"

\* C28: in the Database tab the outcome of the first load, a bundle or an
\* error, stays in the tab's own cache for the life of the process: no
\* training run and no Predict-page load changes it, the Train page clears
\* the Predict page's cache alone, and run_prediction goes on using the
\* cached bundle, or goes on returning None, after a training has succeeded.
C28_DbCacheOutlivesTraining ==
    [][ /\ db_cache.state # "empty" => db_cache' = db_cache
        /\ db_cache' # db_cache => (sess.caller = "db" /\ page_cache' = page_cache)
        /\ (train_out.status # "returned" /\ train_out'.status = "returned")
             => (page_cache' = NoBundle /\ db_cache' = db_cache)
        /\ (DbEntered /\ db_cache.state = "models")
             => (sess'.pc = "loaded" /\ sess'.bundle = db_cache.models)
        /\ (DbEntered /\ db_cache.state = "error")
             => (sess'.pc = "done" /\ result'.status = "none_returned") ]_vars

\* run_prediction entered after a second training succeeded: it has the
\* bundle of the first from the cache
C28_Witness ==
    /\ db_cache.state = "models"
    /\ BundleRuns(db_cache.models) = { 1 }
    /\ \A p \in Paths : disk[p].run = 2
    /\ trainer.pc = "idle"
    /\ sess.caller = "db" /\ sess.pc = "loaded" /\ sess.k = 0
    /\ sess.bundle = db_cache.models

\* C29: the dark-spot mask of an image never holds every pixel: some pixel
\* has a gray value at or above the mean, so spot_area_ratio is at least 0
\* and below 1.
C29_MaskNeverFull ==
    result.status = "ok" =>
      /\ \E p \in 1..Len(upload) :
           Gray(upload[p]) * Len(upload) >= GraySum(upload)
      /\ SpotMask(upload) # 1..Len(upload)
      /\ result.value.image_features.spot_area_ratio >= 0
      /\ result.value.image_features.spot_area_ratio < SCALE

\* a prediction for an image with every pixel but one in the mask
C29_Witness ==
    /\ result.status = "ok"
    /\ Len(upload) >= 3
    /\ Cardinality(SpotMask(upload)) = Len(upload) - 1
    /\ result.value.image_features.spot_area_ratio > 0

\* the places of the list results that hold None
FailedPlaces == { i \in 1..Len(result.results) : result.results[i] = None }

\* C30: in the loop of the Predict page over n uploaded files a file that
\* fails does not end the loop: after every pass images, results and names
\* have one entry per file handled, entry i belonging to file i; results[i]
\* is None for the files that failed and for no other; and when the loop is
\* over each list has n entries and succeeded plus failed is n.
C30_BatchAligned ==
    result # NoResult =>
      /\ Len(result.images) = Len(result.names)
      /\ Len(result.results) = Len(result.names)
      /\ sess.pc = "batch" => Len(result.names) = sess.k
      /\ \A i \in 1..Len(result.names) :
           /\ result.names[i] = upload[i].nm
           /\ result.results[i] = None <=> ~Readable(upload[i].src)
           /\ result.results[i] = None <=> result.images[i] = NoPixels
           /\ result.results[i] # None =>
                /\ result.images[i] = upload[i].src
                /\ result.results[i].image_features
                     = extract_image_features(upload[i].src)
      /\ result.errors = Cardinality(FailedPlaces)
      /\ sess.pc = "done" =>
           /\ Len(result.names) = Len(upload)
           /\ (Len(upload) - result.errors) + Cardinality(FailedPlaces) = Len(upload)
           /\ Cardinality(1..Len(upload) \ FailedPlaces) = Len(upload) - result.errors

\* a finished loop over three files of which the second failed
C30_Witness ==
    /\ sess.pc = "done"
    /\ result # NoResult
    /\ Len(upload) = 3
    /\ FailedPlaces = { 2 }
    /\ result.names = << 1, 2, 3 >>

=============================================================================
